---- MODULE Spec2Model ----
(***************************************************************************)
(* Clock alignment of one recording session of constantinople-lab-to-nwb.  *)
(*                                                                         *)
(* The behavioral controller (Bpod) is the primary clock; the recording    *)
(* (OpenEphys / Doric / video) is the secondary clock.  Both see the same  *)
(* trial starts.  The conversion notes give the procedure:                 *)
(*     time_shift = bpod_trial_start_times[0] - center_port_onset_times[0] *)
(*     aligned_timestamps = unaligned_timestamps + time_shift              *)
(* and three cases that say which side moves.                              *)
(*                                                                         *)
(* Times are integer ticks of the common time unit; sums and differences   *)
(* of ticks are exact, so "equal within tolerance" is equality of ticks.   *)
(* Python's index 0 is index 1 of a TLA+ sequence.                         *)
(***************************************************************************)
EXTENDS Integers, Sequences, FiniteSets, TLC

VARIABLES
    pc,                        \* stage of the session in the engine
    bpod_trial_start_times,    \* primary marker timeline (Bpod TrialStartTimestamp)
    raw_events,                \* per trial: trial-relative States interval and Events time
    session_start_time,        \* the reference epoch (Bpod session start), in ticks
    center_port_onset_times,   \* secondary marker timeline (Cled onsets / Doric TTL)
    unaligned_timestamps,      \* secondary raw-sample timestamps
    time_shift,                \* the computed shift
    branch,                    \* the case selected: 1, 2 or 3 (0 before selection)
    aligned,                   \* the session after the selected case was applied
    error,                     \* the error the session ended in, or "none"
    sink,                      \* the sessions handed over for writing
    runs,                      \* how often the engine was re-run on its own output
    report,                    \* what was displayed of the session, or <<>>
    script,                    \* convertSULocationToString: idle, running, done, error
    disk,                      \* the .mat files of the folder, as they are on disk
    original,                  \* the same files as they were when they were listed
    k,                         \* the index of the file the loop is at
    loaded,                    \* the indices of the files that were loaded
    saved,                     \* the indices of the files that were saved
    console,                   \* the messages displayed
    pass,                      \* how often the script has been started
    dateScript,                \* the date script: idle, running, done, error
    dateDisk,                  \* the .mat files of its folder, as they are on disk
    dateListed,                \* the same files as they were when they were listed
    dateIndex,                 \* the index of the file its loop is at
    datePass,                  \* how often the date script has been started
    dateMatFiles,              \* matFiles of the date script: the listing, or loaded from a file
    dateElsewhere,             \* what the date script has saved outside the folder
    metadata,                  \* the fiber photometry metadata as loaded from a file
    rowsDone,                  \* how many device references of its table rows were looked up
    regionsDone,               \* how many indices of its table regions were looked up
    dangling                   \* the references that name nothing defined in the file

\* The state of the alignment, and the state of the MATLAB script.
alignVars == <<pc, bpod_trial_start_times, raw_events, session_start_time,
               center_port_onset_times, unaligned_timestamps, time_shift, branch,
               aligned, error, sink, runs, report>>

scriptVars == <<script, disk, original, k, loaded, saved, console, pass>>

dateVars == <<dateScript, dateDisk, dateListed, dateIndex, datePass, dateMatFiles,
             dateElsewhere>>

metaVars == <<metadata, rowsDone, regionsDone, dangling>>

vars == <<alignVars, scriptVars, dateVars, metaVars>>

(***************************************************************************)
(* Bounds of the model.                                                    *)
(***************************************************************************)
MaxT == 3          \* input marker times are drawn from 0..MaxT
MaxTrials == 2     \* a marker timeline has at most MaxTrials entries
NegRange == 1      \* the first raw sample is drawn from -NegRange..MaxT
MaxRuns == 1       \* re-runs of the engine on its own output

Times == 0 .. MaxT

\* Ordered (non-decreasing) timelines of n markers.
MonoSeqs(n) == {s \in [1 .. n -> Times] : \A i \in 1 .. (n - 1) : s[i] <= s[i + 1]}

MarkerTimelines == UNION {MonoSeqs(n) : n \in 0 .. MaxTrials}

\* RawEvents.Trial entries: States as [relative_start_time, relative_end_time],
\* Events as a relative time, Actions (sound outputs) as relative times in the
\* order the source lists them.
RawTrials == { [States |-> <<0, 1>>, Events |-> 0, Actions |-> <<1, 0>>],
               [States |-> <<1, 3>>, Events |-> 2, Actions |-> <<0, 2>>] }

SessionStarts == {100}

\* A raw-sample timeline that starts at f: consecutive sample times.
SampleTimeline(f) == [i \in 1 .. 2 |-> f + (i - 1)]

\* Sessions with given times.  Times of A and B are the first two markers
\* of the sessions of the notes, rounded to milliseconds; times of the others
\* are in ticks; every trial of a scenario has the same relative times.
\*   A, B  the two sessions of the notes (case 2)
\*   C     shift -10, first sample 5 (case 1)
\*   D     shift +3, first sample below zero (case 3)
\*   E     trial start 1000 with the relative state interval <<2, 11>>
\*   the last four: timelines of different lengths, no markers, a sample
\*   that stays negative, and a case 1 that moves a trial start below zero
ScenarioSessions ==
    { [name |-> "A", bpod |-> <<19988, 39715>>, onsets |-> <<48570, 68298>>,
       first |-> 29740, start |-> 100,
       trial |-> [States |-> <<0, 1>>, Events |-> 0, Actions |-> <<1, 0>>]],
      [name |-> "B", bpod |-> <<11426, 104528>>, onsets |-> <<17116, 110217>>,
       first |-> 17116, start |-> 100,
       trial |-> [States |-> <<0, 1>>, Events |-> 0, Actions |-> <<1, 0>>]],
      [name |-> "C", bpod |-> <<20, 25>>, onsets |-> <<30, 35>>,
       first |-> 5, start |-> 100,
       trial |-> [States |-> <<1, 3>>, Events |-> 2, Actions |-> <<0, 2>>]],
      [name |-> "D", bpod |-> <<8, 9>>, onsets |-> <<5, 6>>,
       first |-> 0 - 2, start |-> 100,
       trial |-> [States |-> <<1, 3>>, Events |-> 2, Actions |-> <<0, 2>>]],
      [name |-> "E", bpod |-> <<1000>>, onsets |-> <<1000>>,
       first |-> 0, start |-> 100,
       trial |-> [States |-> <<2, 11>>, Events |-> 5, Actions |-> <<3>>]],
      [name |-> "lengths differ", bpod |-> <<4, 6>>, onsets |-> <<7>>,
       first |-> 1, start |-> 100,
       trial |-> [States |-> <<0, 1>>, Events |-> 0, Actions |-> <<1, 0>>]],
      [name |-> "no markers", bpod |-> <<>>, onsets |-> <<>>,
       first |-> 0, start |-> 100,
       trial |-> [States |-> <<0, 1>>, Events |-> 0, Actions |-> <<1, 0>>]],
      [name |-> "negative sample", bpod |-> <<8>>, onsets |-> <<5>>,
       first |-> 0 - 5, start |-> 100,
       trial |-> [States |-> <<0, 1>>, Events |-> 0, Actions |-> <<1, 0>>]],
      [name |-> "no room", bpod |-> <<2, 7>>, onsets |-> <<12, 17>>,
       first |-> 5, start |-> 100,
       trial |-> [States |-> <<0, 1>>, Events |-> 0, Actions |-> <<1, 0>>]] }

NoSession == [bpod_trial_start_times |-> <<>>, session_start_time |-> 0,
              states |-> <<>>, events |-> <<>>, actions |-> <<>>,
              timestamps |-> <<>>, center_port_onset_times |-> <<>>]

(***************************************************************************)
(* The computation.                                                        *)
(***************************************************************************)

\* Variant: the difference is taken the other way round.
TimeShiftReversed(bpod, onsets) == onsets[1] - bpod[1]

\* Variant: the shift taken from the last markers instead of the first.
TimeShiftLastMarker(bpod, onsets) == bpod[Len(bpod)] - onsets[Len(onsets)]

\* time_shift = bpod_trial_start_times[0] - center_port_onset_times[0]
TimeShift(bpod, onsets) == bpod[1] - onsets[1]

\* Variant: the first entry of the series is left out of the shift.
ShiftTail(series, d) ==
    [i \in DOMAIN series |-> IF i = 1 THEN series[i] ELSE series[i] + d]

\* aligned_timestamps = unaligned_timestamps + time_shift
Shift(series, d) == [i \in DOMAIN series |-> series[i] + d]

\* The first aligned timestamp of the recording trace.
FirstAligned(timestamps, shift) == Shift(timestamps, shift)[1]

\* 1) the time shift is negative and the first aligned timestamp is negative
Case1(shift, first) == shift < 0 /\ first < 0

\* Variant: case 2 only for a first aligned timestamp above zero.
Case2Strict(shift, first) == shift < 0 /\ first > 0

\* 2) the time shift is negative and the first aligned timestamp is positive.
\* The notes do not say where a first aligned timestamp of exactly 0 goes; it is
\* not negative, so it is not case 1, and it goes here.
Case2(shift, first) == shift < 0 /\ first >= 0

\* The cases are tried in the order the notes list them; 3) is what is left:
\* the time shift is positive (or zero, where moving by it moves nothing).
SelectCase(shift, first) ==
    IF Case1(shift, first) THEN 1
    ELSE IF Case2(shift, first) THEN 2
    ELSE 3

\* Case 1 moves the primary side back.  The notes give no amount; the amount is
\* the one the specification names: |secondary_first_sample + shift|.
BackShiftAmount(shift, first) == 0 - first

\* Variant: the amount added instead of subtracted.
ShiftBackForward(series, amount) == [i \in DOMAIN series |-> series[i] + amount]

\* "shift back bpod (from every column that has a timestamp ...)"
ShiftBack(series, amount) == [i \in DOMAIN series |-> series[i] - amount]

\* Bpod trial starts: moved back in case 1, kept in cases 2 and 3.
AlignedBpod(br, bpod, amount) == IF br = 1 THEN ShiftBack(bpod, amount) ELSE bpod

\* Variant: the session start time left where it was.
AlignedSessionStartKept(br, start, amount) == start

\* "shift back session start time" in case 1; kept in cases 2 and 3.
AlignedSessionStart(br, start, amount) == IF br = 1 THEN start - amount ELSE start

\* Variant: the recording moved against the sign of time_shift.
AlignedTimestampsNegated(br, timestamps, shift) ==
    IF br = 1 THEN timestamps ELSE Shift(timestamps, 0 - shift)

\* Variant: a recording that starts below zero is not moved.
AlignedTimestampsGuarded(br, timestamps, shift) ==
    IF br = 1 \/ timestamps[1] < 0 THEN timestamps ELSE Shift(timestamps, shift)

\* The recording: not moved in case 1, moved by time_shift in cases 2 and 3.
AlignedTimestamps(br, timestamps, shift) ==
    IF br = 1 THEN timestamps ELSE Shift(timestamps, shift)

\* Variant: the secondary markers moved in every case.
AlignedCenterPortAlways(br, onsets, shift) == Shift(onsets, shift)

\* center_port_onset_times: not moved in case 1, moved by time_shift in 2 and 3.
AlignedCenterPort(br, onsets, shift) ==
    IF br = 1 THEN onsets ELSE Shift(onsets, shift)

\* Relative Bpod times become absolute by adding the start time of the trial.
AbsoluteStates(starts, raw) ==
    [i \in DOMAIN raw |-> <<starts[i] + raw[i].States[1], starts[i] + raw[i].States[2]>>]

\* Variant: the start of the first trial added in every trial.
AbsoluteEventsFirstTrial(starts, raw) == [i \in DOMAIN raw |-> starts[1] + raw[i].Events]

AbsoluteEvents(starts, raw) == [i \in DOMAIN raw |-> starts[i] + raw[i].Events]

\* The actions of a trial keep their places; each has the trial start added.
AbsoluteActions(starts, raw) ==
    [i \in DOMAIN raw |->
        [j \in DOMAIN raw[i].Actions |-> starts[i] + raw[i].Actions[j]]]

\* Variant: the tables are rebuilt from the shifted trial starts and then
\* shifted once more.
ApplyCaseShiftedTwice(br, shift, amount) ==
    LET starts == AlignedBpod(br, bpod_trial_start_times, amount)
        again == IF br = 1 THEN 0 - amount ELSE 0
    IN  [bpod_trial_start_times |-> starts,
         session_start_time |-> AlignedSessionStart(br, session_start_time, amount),
         states |-> [i \in DOMAIN raw_events |->
                        Shift(AbsoluteStates(starts, raw_events)[i], again)],
         events |-> Shift(AbsoluteEvents(starts, raw_events), again),
         actions |-> [i \in DOMAIN raw_events |->
                        Shift(AbsoluteActions(starts, raw_events)[i], again)],
         timestamps |-> AlignedTimestamps(br, unaligned_timestamps, shift),
         center_port_onset_times |-> AlignedCenterPort(br, center_port_onset_times, shift)]

\* The session with the selected case applied to every series.
ApplyCase(br, shift, amount) ==
    LET starts == AlignedBpod(br, bpod_trial_start_times, amount)
    IN  [bpod_trial_start_times |-> starts,
         session_start_time |-> AlignedSessionStart(br, session_start_time, amount),
         states |-> AbsoluteStates(starts, raw_events),
         events |-> AbsoluteEvents(starts, raw_events),
         actions |-> AbsoluteActions(starts, raw_events),
         timestamps |-> AlignedTimestamps(br, unaligned_timestamps, shift),
         center_port_onset_times |-> AlignedCenterPort(br, center_port_onset_times, shift)]

\* What the notes display of a session: the value of time_shift, right after
\* it is computed.  The case that is selected is not displayed.
Displayed(shift) == [time_shift |-> shift]

\* bpod_trial_start_times[0] or center_port_onset_times[0] of an empty list:
\* IndexError.
NoFirstMarker(bpod, onsets) == Len(bpod) = 0 \/ Len(onsets) = 0

(***************************************************************************)
(* The fiber photometry metadata files: for every section under a top-level *)
(* key Ophys, the names of the devices it defines, the rows of its          *)
(* FiberPhotometryTable, and the table regions of its response series.      *)
(***************************************************************************)
DoricCsvMetadata ==
    [file |-> "doric_csv_fiber_photometry_metadata.yaml",
     devices |-> [optical_fiber |-> {"optical_fiber"},
                  excitation_source |-> {"excitation_source_grab_da", "excitation_source_mcherry", "excitation_source_grab_da_isosbestic"},
                  photodetector |-> {"photodetector"},
                  dichroic_mirror |-> {"dichroic_mirror"},
                  indicator |-> {"grab_da", "mcherry"}],
     rows |-> <<[name |-> 0, indicator |-> "mcherry", optical_fiber |-> "optical_fiber",
              excitation_source |-> "excitation_source_mcherry",
              photodetector |-> "photodetector", dichroic_mirror |-> "dichroic_mirror"],
             [name |-> 1, indicator |-> "grab_da", optical_fiber |-> "optical_fiber",
              excitation_source |-> "excitation_source_grab",
              photodetector |-> "photodetector", dichroic_mirror |-> "dichroic_mirror"],
             [name |-> 2, indicator |-> "grab_da", optical_fiber |-> "optical_fiber",
              excitation_source |-> "excitation_source_grab_isosbestic",
              photodetector |-> "photodetector", dichroic_mirror |-> "dichroic_mirror"]>>,
     regions |-> <<<<0, 1, 2>>, <<0, 1>>>>]

DoricMetadata ==
    [file |-> "doric_fiber_photometry_metadata.yaml",
     devices |-> [optical_fiber |-> {"optical_fiber"},
                  excitation_source |-> {"excitation_source_gfp", "excitation_source_mcherry", "excitation_source_gfp_isosbestic"},
                  photodetector |-> {"photodetector"},
                  dichroic_mirror |-> {"dichroic_mirror"},
                  indicator |-> {"gfp", "mcherry"}],
     rows |-> <<[name |-> 0, indicator |-> "gfp", optical_fiber |-> "optical_fiber",
              excitation_source |-> "excitation_source_gfp",
              photodetector |-> "photodetector", dichroic_mirror |-> "dichroic_mirror"],
             [name |-> 1, indicator |-> "mcherry", optical_fiber |-> "optical_fiber",
              excitation_source |-> "excitation_source_mcherry",
              photodetector |-> "photodetector", dichroic_mirror |-> "dichroic_mirror"],
             [name |-> 2, indicator |-> "gfp", optical_fiber |-> "optical_fiber",
              excitation_source |-> "excitation_source_gfp_isosbestic",
              photodetector |-> "photodetector", dichroic_mirror |-> "dichroic_mirror"],
             [name |-> 3, indicator |-> "gfp", optical_fiber |-> "optical_fiber",
              excitation_source |-> "excitation_source_gfp",
              photodetector |-> "photodetector", dichroic_mirror |-> "dichroic_mirror"],
             [name |-> 4, indicator |-> "mcherry", optical_fiber |-> "optical_fiber",
              excitation_source |-> "excitation_source_mcherry",
              photodetector |-> "photodetector", dichroic_mirror |-> "dichroic_mirror"],
             [name |-> 5, indicator |-> "gfp", optical_fiber |-> "optical_fiber",
              excitation_source |-> "excitation_source_gfp_isosbestic",
              photodetector |-> "photodetector", dichroic_mirror |-> "dichroic_mirror"]>>,
     regions |-> <<<<0, 1, 2, 3, 4, 5>>, <<0, 1, 3, 4>>, <<0, 3>>, <<0, 1, 3, 4>>>>]

\* The section under the second key Ophys of the same file.
DoricMetadataSecond ==
    [file |-> "doric_fiber_photometry_metadata.yaml",
     devices |-> [optical_fiber |-> {"optical_fiber"},
                  excitation_source |-> {"excitation_source_grab_da", "excitation_source_grab_ach", "excitation_source_mcherry", "excitation_source_grab_da_isosbestic", "excitation_source_grab_ach_isosbestic"},
                  photodetector |-> {"photodetector"},
                  dichroic_mirror |-> {"dichroic_mirror"},
                  indicator |-> {"grab_da", "grab_ach", "mcherry"}],
     rows |-> <<[name |-> 0, indicator |-> "mcherry", optical_fiber |-> "optical_fiber",
              excitation_source |-> "excitation_source_mcherry",
              photodetector |-> "photodetector", dichroic_mirror |-> "dichroic_mirror"],
             [name |-> 1, indicator |-> "grab_ach", optical_fiber |-> "optical_fiber",
              excitation_source |-> "excitation_source_grab_ach",
              photodetector |-> "photodetector", dichroic_mirror |-> "dichroic_mirror"],
             [name |-> 2, indicator |-> "grab_ach", optical_fiber |-> "optical_fiber",
              excitation_source |-> "excitation_source_grab_ach_isosbestic",
              photodetector |-> "photodetector", dichroic_mirror |-> "dichroic_mirror"]>>,
     regions |-> <<<<0, 1>>, <<0, 1, 0, 2>>>>]

\* The metadata files, each the sequence of its sections.
MetadataFiles == {<<DoricCsvMetadata>>, <<DoricMetadata, DoricMetadataSecond>>}

\* yaml.safe_load: a mapping has one value for a key, so of the sections
\* under the same top-level key the last one is what is loaded.
safe_load(sections) == sections[Len(sections)]

\* No metadata file has been read.
NoMetadata ==
    [file |-> "", devices |-> [optical_fiber |-> {}, excitation_source |-> {},
                               photodetector |-> {}, dichroic_mirror |-> {},
                               indicator |-> {}],
     rows |-> <<>>, regions |-> <<>>]

\* The fields of a row that name a device.
DeviceFields ==
    <<"indicator", "optical_fiber", "excitation_source", "photodetector", "dichroic_mirror">>

\* The device references of the rows, row after row.
RowReferences(file) ==
    [r \in 1 .. Len(file.rows) * Len(DeviceFields) |->
        LET row == file.rows[((r - 1) \div Len(DeviceFields)) + 1]
            field == DeviceFields[((r - 1) % Len(DeviceFields)) + 1]
        IN  [row |-> row.name, field |-> field, name |-> row[field]]]

RECURSIVE Flatten(_)
Flatten(seqs) == IF seqs = <<>> THEN <<>> ELSE Head(seqs) \o Flatten(Tail(seqs))

\* The indices of the table regions, series after series.
RegionReferences(file) == Flatten(file.regions)

\* The name is an entry of the list of devices of the field.
DeviceDefined(file, reference) == reference.name \in file.devices[reference.field]

\* The index is the name of a row of the table.
RowDefined(file, index) == \E r \in DOMAIN file.rows : file.rows[r].name = index

(***************************************************************************)
(* The steps of a session.                                                 *)
(***************************************************************************)
Init ==
    /\ pc = "idle"
    /\ bpod_trial_start_times = <<>>
    /\ raw_events = <<>>
    /\ session_start_time = 0
    /\ center_port_onset_times = <<>>
    /\ unaligned_timestamps = <<>>
    /\ time_shift = 0
    /\ branch = 0
    /\ aligned = NoSession
    /\ error = "none"
    /\ sink = <<>>
    /\ runs = 0
    /\ report = <<>>
    /\ script = "idle"
    /\ disk = <<>>
    /\ original = <<>>
    /\ k = 1
    /\ loaded = {}
    /\ saved = {}
    /\ console = <<>>
    /\ pass = 1
    /\ dateScript = "idle"
    /\ dateDisk = <<>>
    /\ dateListed = <<>>
    /\ dateIndex = 1
    /\ datePass = 1
    /\ dateMatFiles = "listing"
    /\ dateElsewhere = {}
    /\ metadata = NoMetadata
    /\ rowsDone = 0
    /\ regionsDone = 0
    /\ dangling = {}

\* Both sources are parsed into plain timelines: the trial starts of Bpod,
\* the onsets of the recording and its timestamps are read from their files
\* and not compared with each other.
Parse ==
    /\ pc = "idle"
    /\ \E bpod \in MarkerTimelines, onsets \in MarkerTimelines,
          f \in (0 - NegRange) .. MaxT, start \in SessionStarts :
         \E raw \in [1 .. Len(bpod) -> RawTrials] :
           /\ bpod_trial_start_times' = bpod
           /\ raw_events' = raw
           /\ center_port_onset_times' = onsets
           /\ unaligned_timestamps' = SampleTimeline(f)
           /\ session_start_time' = start
    /\ pc' = "parsed"
    /\ UNCHANGED <<time_shift, branch, aligned, error, sink, runs, report>>
    /\ UNCHANGED scriptVars
    /\ UNCHANGED dateVars
    /\ UNCHANGED metaVars

\* One of the sessions of ScenarioSessions is parsed.
ParseScenario ==
    /\ pc = "idle"
    /\ \E s \in ScenarioSessions :
         /\ bpod_trial_start_times' = s.bpod
         /\ raw_events' = [i \in DOMAIN s.bpod |-> s.trial]
         /\ center_port_onset_times' = s.onsets
         /\ unaligned_timestamps' = SampleTimeline(s.first)
         /\ session_start_time' = s.start
    /\ pc' = "parsed"
    /\ UNCHANGED <<time_shift, branch, aligned, error, sink, runs, report>>
    /\ UNCHANGED scriptVars
    /\ UNCHANGED dateVars
    /\ UNCHANGED metaVars

\* The shift is derived from the first markers and displayed, and the case
\* is selected.  Only the first entry of either timeline is read: timelines
\* of different lengths are not noticed, an empty one ends the session.
DeriveShift ==
    /\ pc = "parsed"
    /\ IF NoFirstMarker(bpod_trial_start_times, center_port_onset_times)
       THEN /\ pc' = "failed"
            /\ error' = "IndexError"
            /\ UNCHANGED <<time_shift, branch, report>>
       ELSE LET shift == TimeShift(bpod_trial_start_times, center_port_onset_times)
                br == SelectCase(shift, FirstAligned(unaligned_timestamps, shift))
            IN  /\ time_shift' = shift
                /\ branch' = br
                /\ report' = Displayed(shift)
                /\ pc' = "shifted"
                /\ error' = error
    /\ UNCHANGED <<bpod_trial_start_times, raw_events, session_start_time,
                   center_port_onset_times, unaligned_timestamps, aligned, sink, runs>>
    /\ UNCHANGED scriptVars
    /\ UNCHANGED dateVars
    /\ UNCHANGED metaVars

\* The selected case is applied to every series of the session.
Apply ==
    /\ pc = "shifted"
    /\ aligned' = ApplyCase(branch, time_shift,
                     BackShiftAmount(time_shift, FirstAligned(unaligned_timestamps, time_shift)))
    /\ pc' = "applied"
    /\ UNCHANGED <<bpod_trial_start_times, raw_events, session_start_time,
                   center_port_onset_times, unaligned_timestamps, time_shift, branch,
                   error, sink, runs, report>>
    /\ UNCHANGED scriptVars
    /\ UNCHANGED dateVars
    /\ UNCHANGED metaVars

\* The aligned session is handed to the sink.
HandOff ==
    /\ pc = "applied"
    /\ sink' = Append(sink, aligned)
    /\ pc' = "written"
    /\ UNCHANGED <<bpod_trial_start_times, raw_events, session_start_time,
                   center_port_onset_times, unaligned_timestamps, time_shift, branch,
                   aligned, error, runs, report>>
    /\ UNCHANGED scriptVars
    /\ UNCHANGED dateVars
    /\ UNCHANGED metaVars

\* The engine is run again on the timelines of an aligned session.
Realign ==
    /\ pc = "written"
    /\ runs < MaxRuns
    /\ bpod_trial_start_times' = aligned.bpod_trial_start_times
    /\ session_start_time' = aligned.session_start_time
    /\ center_port_onset_times' = aligned.center_port_onset_times
    /\ unaligned_timestamps' = aligned.timestamps
    /\ time_shift' = 0
    /\ branch' = 0
    /\ aligned' = NoSession
    /\ report' = <<>>
    /\ runs' = runs + 1
    /\ pc' = "parsed"
    /\ UNCHANGED <<raw_events, error, sink>>
    /\ UNCHANGED scriptVars
    /\ UNCHANGED dateVars
    /\ UNCHANGED metaVars

\* One session through the engine, and the engine run again on its result.
Next == Parse \/ ParseScenario \/ DeriveShift \/ Apply \/ HandOff \/ Realign

Spec == Init /\ [][Next]_vars

(***************************************************************************)
(* convertSULocationToString.m: the location fields of the 'SU' variable of *)
(* every .mat file of a folder are made character arrays.                   *)
(***************************************************************************)
MaxFiles == 2      \* .mat files in the folder
MaxPasses == 2     \* runs of the script over the folder

\* The values of a location field: a character array, a string, or a cell
\* array of such values.
CharArray(text) == [type |-> "char", text |-> text, items |-> <<>>]

StringValue(text) == [type |-> "string", text |-> text, items |-> <<>>]

CellArray(items) == [type |-> "cell", text |-> "", items |-> items]

Locations ==
    { CharArray("PrL"), StringValue("PrL"), CellArray(<<>>),
      CellArray(<<CharArray("PrL")>>),
      CellArray(<<StringValue("MO"), CharArray("PrL")>>),
      CellArray(<<CellArray(<<CharArray("PrL")>>)>>) }

\* A unit of SU with a location field, and one without.
UnitAt(location) == [hasLocation |-> TRUE, location |-> location]

UnitNoLocation == [hasLocation |-> FALSE, location |-> CharArray("")]

\* The SU variables: no unit, one unit of every kind, and two units.
SUs ==
    {<<>>} \cup {<<UnitNoLocation>>} \cup {<<UnitAt(l)>> : l \in Locations}
    \cup {<<UnitAt(CellArray(<<CharArray("PrL")>>)), UnitNoLocation>>,
          <<UnitAt(CharArray("MO")), UnitAt(CellArray(<<StringValue("MO"), CharArray("PrL")>>))>>}

\* The S variables.
Ss == {7, 8}

\* A file that cannot be loaded.
UnreadableFile ==
    [ok |-> FALSE, hasSU |-> FALSE, SU |-> <<>>, hasS |-> FALSE, S |-> 0, others |-> FALSE]

\* The .mat files: the variables SU and S, each there or not, and whether the
\* file has other variables.
MatFiles ==
    {UnreadableFile}
    \cup { [ok |-> TRUE, hasSU |-> FALSE, SU |-> <<>>, hasS |-> FALSE, S |-> 0, others |-> o] :
             o \in BOOLEAN }
    \cup { [ok |-> TRUE, hasSU |-> FALSE, SU |-> <<>>, hasS |-> TRUE, S |-> v, others |-> o] :
             v \in Ss, o \in BOOLEAN }
    \cup { [ok |-> TRUE, hasSU |-> TRUE, SU |-> su, hasS |-> FALSE, S |-> 0, others |-> o] :
             su \in SUs, o \in BOOLEAN }
    \cup { [ok |-> TRUE, hasSU |-> TRUE, SU |-> su, hasS |-> TRUE, S |-> v, others |-> o] :
             su \in SUs, v \in Ss, o \in BOOLEAN }

Folders == UNION { [1 .. n -> MatFiles] : n \in 0 .. MaxFiles }

\* The first element of a cell array that is not empty; any other value as it is.
ConvertLocation(location) ==
    IF location.type = "cell" /\ Len(location.items) > 0
    THEN location.items[1]
    ELSE location

\* The location of a unit that has the field is converted.
ConvertUnit(unit) ==
    IF unit.hasLocation
    THEN [unit EXCEPT !.location = ConvertLocation(unit.location)]
    ELSE unit

ConvertSU(SU) == [i \in DOMAIN SU |-> ConvertUnit(SU[i])]

\* Variant: only SU is saved.
SavedFileSUOnly(S, SU) ==
    [ok |-> TRUE, hasSU |-> TRUE, SU |-> SU, hasS |-> FALSE, S |-> 0, others |-> FALSE]

\* save(matFilePath, 'S', 'SU'): the file holds these two variables.
SavedFile(S, SU) ==
    [ok |-> TRUE, hasSU |-> TRUE, SU |-> SU, hasS |-> TRUE, S |-> S, others |-> FALSE]

\* The .mat files of the folder are listed.
ListFiles ==
    /\ script = "idle"
    /\ \E folder \in Folders :
         /\ disk' = folder
         /\ original' = folder
         /\ script' = IF Len(folder) = 0 THEN "done" ELSE "running"
    /\ UNCHANGED <<k, loaded, saved, console>>
    /\ UNCHANGED pass
    /\ UNCHANGED alignVars
    /\ UNCHANGED dateVars
    /\ UNCHANGED metaVars

\* The loop goes to the next file, or ends after the last one.
NextFile ==
    /\ k' = k + 1
    /\ script' = IF k = Len(disk) THEN "done" ELSE "running"

\* Variant: the error of load is not caught and ends the script.
LoadFailsAborting ==
    /\ script = "running"
    /\ ~disk[k].ok
    /\ console' = Append(console, [text |-> "An error occurred", file |-> k])
    /\ script' = "error"
    /\ UNCHANGED <<disk, original, k, loaded, saved>>
    /\ UNCHANGED pass
    /\ UNCHANGED alignVars
    /\ UNCHANGED dateVars
    /\ UNCHANGED metaVars

\* The file cannot be loaded: the error is displayed, the loop continues.
LoadFails ==
    /\ script = "running"
    /\ ~disk[k].ok
    /\ console' = Append(console, [text |-> "An error occurred", file |-> k])
    /\ NextFile
    /\ UNCHANGED <<disk, original, loaded, saved>>
    /\ UNCHANGED pass
    /\ UNCHANGED alignVars
    /\ UNCHANGED dateVars
    /\ UNCHANGED metaVars

\* Variant: a file without SU is saved again like any other.
SkipFileSaving ==
    /\ script = "running"
    /\ disk[k].ok
    /\ ~disk[k].hasSU
    /\ loaded' = loaded \cup {k}
    /\ disk' = [disk EXCEPT ![k] = [@ EXCEPT !.others = FALSE]]
    /\ saved' = saved \cup {k}
    /\ NextFile
    /\ UNCHANGED <<original, console>>
    /\ UNCHANGED pass
    /\ UNCHANGED alignVars
    /\ UNCHANGED dateVars
    /\ UNCHANGED metaVars

\* The file has no SU variable: nothing is done with it.
SkipFile ==
    /\ script = "running"
    /\ disk[k].ok
    /\ ~disk[k].hasSU
    /\ loaded' = loaded \cup {k}
    /\ NextFile
    /\ UNCHANGED <<disk, original, saved, console>>
    /\ UNCHANGED pass
    /\ UNCHANGED alignVars
    /\ UNCHANGED dateVars
    /\ UNCHANGED metaVars

\* The file has SU but no S: reading data.S is an error that nothing catches.
MissingS ==
    /\ script = "running"
    /\ disk[k].ok
    /\ disk[k].hasSU
    /\ ~disk[k].hasS
    /\ loaded' = loaded \cup {k}
    /\ script' = "error"
    /\ UNCHANGED <<disk, original, k, saved, console>>
    /\ UNCHANGED pass
    /\ UNCHANGED alignVars
    /\ UNCHANGED dateVars
    /\ UNCHANGED metaVars

\* The file has SU and S: the locations are converted, and S and SU are saved.
ConvertFile ==
    /\ script = "running"
    /\ disk[k].ok
    /\ disk[k].hasSU
    /\ disk[k].hasS
    /\ loaded' = loaded \cup {k}
    /\ disk' = [disk EXCEPT ![k] = SavedFile(disk[k].S, ConvertSU(disk[k].SU))]
    /\ saved' = saved \cup {k}
    /\ console' = Append(console, [text |-> "Processed and saved", file |-> k])
    /\ NextFile
    /\ UNCHANGED original
    /\ UNCHANGED pass
    /\ UNCHANGED alignVars
    /\ UNCHANGED dateVars
    /\ UNCHANGED metaVars

\* The script is started again on the folder as it is now.
RunAgain ==
    /\ script \in {"done", "error"}
    /\ pass < MaxPasses
    /\ pass' = pass + 1
    /\ original' = disk
    /\ k' = 1
    /\ script' = IF Len(disk) = 0 THEN "done" ELSE "running"
    /\ loaded' = {}
    /\ saved' = {}
    /\ console' = <<>>
    /\ UNCHANGED disk
    /\ UNCHANGED alignVars
    /\ UNCHANGED dateVars
    /\ UNCHANGED metaVars

NextSU == ListFiles \/ LoadFails \/ SkipFile \/ MissingS \/ ConvertFile \/ RunAgain

SpecSU == Init /\ [][NextSU]_vars

(***************************************************************************)
(* The date script: the 'date' field of the struct A of every .mat file of  *)
(* a folder is made a string.                                               *)
(***************************************************************************)
MaxDateFiles == 2  \* .mat files in the folder of the date script

\* The values of a date field: a datetime, a character array as datestr
\* makes it, and a number.
Datetime(year, month, day, hour) ==
    [type |-> "datetime", year |-> year, month |-> month, day |-> day,
     hour |-> hour, mmm |-> ""]

DateNumber == [type |-> "double", year |-> 0, month |-> 0, day |-> 0, hour |-> 0, mmm |-> ""]

MonthNames == <<"Jan", "Feb", "Mar", "Apr", "May", "Jun",
                "Jul", "Aug", "Sep", "Oct", "Nov", "Dec">>

\* datestr(date, 'dd-mmm-yyyy'): day, name of the month and year; the time
\* of day is not in the string.
datestr(date) ==
    [type |-> "char", year |-> date.year, month |-> 0, day |-> date.day,
     hour |-> 0, mmm |-> IF date.month \in DOMAIN MonthNames
                         THEN MonthNames[date.month] ELSE date.mmm]

Dates ==
    { Datetime(2023, 8, 9, 13), Datetime(2023, 12, 12, 0),
      datestr(Datetime(2023, 8, 9, 13)), DateNumber }

\* What a .mat file holds besides A.  load(filePath) has no output, so every
\* variable of the file becomes a variable of the script: one named matFiles
\* or filePath replaces the script's own (one named i or folderPath is not
\* read again before it is assigned, and counts as any other variable).
OtherVariables == {"none", "other", "matFiles", "filePath"}

\* The value of a variable filePath of a file: no text, a path outside the
\* folder, the path of the first or of the last file of the listing.
Targets == {"invalid", "elsewhere", "first", "last"}

\* The value of a variable matFiles of a file: nothing that has an element
\* i with the fields folder and name, or a struct array of these fields as
\* long as the listing that names the files of the folder in the order of
\* the listing, in the reverse order, or files outside the folder.
Listings == {"invalid", "same", "reversed", "elsewhere"}

\* The .mat files of the folder: unreadable, without A, with an A that has
\* no date, and with an A that has one.
UnreadableDateFile ==
    [ok |-> FALSE, hasA |-> FALSE, hasDate |-> FALSE, date |-> DateNumber,
     others |-> "none", value |-> "none"]

DateFileKinds ==
    { <<o, "none">> : o \in {"none", "other"} }
    \cup { <<"filePath", t>> : t \in Targets }
    \cup { <<"matFiles", l>> : l \in Listings }

DateFiles ==
    {UnreadableDateFile}
    \cup { [ok |-> TRUE, hasA |-> a, hasDate |-> FALSE, date |-> DateNumber,
            others |-> o[1], value |-> o[2]] :
             a \in BOOLEAN, o \in DateFileKinds }
    \cup { [ok |-> TRUE, hasA |-> TRUE, hasDate |-> TRUE, date |-> d,
            others |-> o[1], value |-> o[2]] :
             d \in Dates, o \in DateFileKinds }

DateFolders == UNION { [1 .. n -> DateFiles] : n \in 0 .. MaxDateFiles }

\* isfield(A, 'date') && isa(A.date, 'datetime')
IsDatetimeField(file) == file.hasA /\ file.hasDate /\ file.date.type = "datetime"

\* save(filePath, 'A'): the file holds A and nothing else, with the date as a
\* string.
SavedDateFile(file) ==
    [ok |-> TRUE, hasA |-> TRUE, hasDate |-> TRUE, date |-> datestr(file.date),
     others |-> "none", value |-> "none"]

\* fullfile(matFiles(i).folder, matFiles(i).name): the place in the folder
\* of the file that element i of matFiles names, 0 for a path outside the
\* folder.
ListedPath(listing, index, count) ==
    IF listing \in {"listing", "same"} THEN index
    ELSE IF listing = "reversed" THEN count + 1 - index
    ELSE 0

\* The file at the path of this iteration: the one at that place of the
\* folder, or whatever is at a path outside the folder.
FilesAt(path) == IF path = 0 THEN DateFiles ELSE {dateDisk[path]}

\* filePath after load(filePath): the place in the folder it names, 0 for a
\* path outside the folder; the path that was loaded unless the file holds
\* a variable filePath.
LoadedFilePath(file, path, count) ==
    IF file.others # "filePath" THEN path
    ELSE IF file.value = "first" THEN 1
    ELSE IF file.value = "last" THEN count
    ELSE 0

\* matFiles after load(filePath): as it was unless the file holds a variable
\* matFiles.
LoadedMatFiles(file, listing) ==
    IF file.others = "matFiles" THEN file.value ELSE listing

\* The .mat files of the folder are listed.
ListDateFiles ==
    /\ dateScript = "idle"
    /\ \E folder \in DateFolders :
         /\ dateDisk' = folder
         /\ dateListed' = folder
         /\ dateScript' = IF Len(folder) = 0 THEN "done" ELSE "running"
    /\ UNCHANGED <<dateIndex, datePass, dateMatFiles, dateElsewhere>>
    /\ UNCHANGED alignVars
    /\ UNCHANGED scriptVars
    /\ UNCHANGED metaVars

\* The date of the file that element i of matFiles names is a datetime: it is
\* made a string and A is saved to the path filePath holds after the load.
ConvertDate ==
    /\ dateScript = "running"
    /\ dateMatFiles # "invalid"
    /\ LET loadedPath == ListedPath(dateMatFiles, dateIndex, Len(dateDisk))
       IN  \E file \in FilesAt(loadedPath) :
             /\ file.ok
             /\ IsDatetimeField(file)
             /\ ~(file.others = "filePath" /\ file.value = "invalid")
             /\ LET path == LoadedFilePath(file, loadedPath, Len(dateDisk))
                IN  /\ dateDisk' = IF path = 0 THEN dateDisk
                                   ELSE [dateDisk EXCEPT ![path] = SavedDateFile(file)]
                    /\ dateElsewhere' = IF path = 0
                                        THEN dateElsewhere \cup {SavedDateFile(file)}
                                        ELSE dateElsewhere
             /\ dateMatFiles' = LoadedMatFiles(file, dateMatFiles)
    /\ dateIndex' = dateIndex + 1
    /\ dateScript' = IF dateIndex = Len(dateDisk) THEN "done" ELSE "running"
    /\ UNCHANGED <<dateListed, datePass>>
    /\ UNCHANGED alignVars
    /\ UNCHANGED scriptVars
    /\ UNCHANGED metaVars

\* The file holds a variable filePath that is no text: save raises an error
\* and nothing is written.
DateSaveFails ==
    /\ dateScript = "running"
    /\ dateMatFiles # "invalid"
    /\ \E file \in FilesAt(ListedPath(dateMatFiles, dateIndex, Len(dateDisk))) :
         /\ file.ok
         /\ IsDatetimeField(file)
         /\ file.others = "filePath"
         /\ file.value = "invalid"
    /\ dateScript' = "error"
    /\ UNCHANGED <<dateDisk, dateListed, dateIndex, datePass, dateMatFiles, dateElsewhere>>
    /\ UNCHANGED alignVars
    /\ UNCHANGED scriptVars
    /\ UNCHANGED metaVars

\* The file has no A, or A has no date, or the date is not a datetime: the
\* script ends with an error.
DateError ==
    /\ dateScript = "running"
    /\ dateMatFiles # "invalid"
    /\ \E file \in FilesAt(ListedPath(dateMatFiles, dateIndex, Len(dateDisk))) :
         /\ file.ok
         /\ ~IsDatetimeField(file)
         /\ dateMatFiles' = LoadedMatFiles(file, dateMatFiles)
    /\ dateScript' = "error"
    /\ UNCHANGED <<dateDisk, dateListed, dateIndex, datePass, dateElsewhere>>
    /\ UNCHANGED alignVars
    /\ UNCHANGED scriptVars
    /\ UNCHANGED metaVars

\* The file cannot be loaded: nothing catches the error of load.
DateLoadFails ==
    /\ dateScript = "running"
    /\ dateMatFiles # "invalid"
    /\ \E file \in FilesAt(ListedPath(dateMatFiles, dateIndex, Len(dateDisk))) : ~file.ok
    /\ dateScript' = "error"
    /\ UNCHANGED <<dateDisk, dateListed, dateIndex, datePass, dateMatFiles, dateElsewhere>>
    /\ UNCHANGED alignVars
    /\ UNCHANGED scriptVars
    /\ UNCHANGED metaVars

\* matFiles is what an earlier file held and has no element i with a field
\* folder: matFiles(i).folder raises an error and no file is loaded.
DateListingLost ==
    /\ dateScript = "running"
    /\ dateMatFiles = "invalid"
    /\ dateScript' = "error"
    /\ UNCHANGED <<dateDisk, dateListed, dateIndex, datePass, dateMatFiles, dateElsewhere>>
    /\ UNCHANGED alignVars
    /\ UNCHANGED scriptVars
    /\ UNCHANGED metaVars

\* The date script is started again on the folder as it is now.
RunDateAgain ==
    /\ dateScript \in {"done", "error"}
    /\ datePass < MaxPasses
    /\ datePass' = datePass + 1
    /\ dateListed' = dateDisk
    /\ dateIndex' = 1
    /\ dateMatFiles' = "listing"
    /\ dateScript' = IF Len(dateDisk) = 0 THEN "done" ELSE "running"
    /\ UNCHANGED <<dateDisk, dateElsewhere>>
    /\ UNCHANGED alignVars
    /\ UNCHANGED scriptVars
    /\ UNCHANGED metaVars

NextDate ==
    \/ ListDateFiles \/ ConvertDate \/ DateSaveFails \/ DateError
    \/ DateLoadFails \/ DateListingLost \/ RunDateAgain

SpecDate == Init /\ [][NextDate]_vars

(***************************************************************************)
(* A metadata file is loaded and its references are looked up, those of    *)
(* the rows in the order of the rows, those of the regions in the order of *)
(* the series.                                                             *)
(***************************************************************************)
ReadMetadata ==
    /\ metadata = NoMetadata
    /\ \E file \in MetadataFiles : metadata' = safe_load(file)
    /\ UNCHANGED <<rowsDone, regionsDone, dangling>>
    /\ UNCHANGED alignVars
    /\ UNCHANGED scriptVars
    /\ UNCHANGED dateVars

\* The next device reference of a row is looked up in the devices of the file.
ResolveDevice ==
    /\ rowsDone < Len(RowReferences(metadata))
    /\ LET reference == RowReferences(metadata)[rowsDone + 1]
       IN  dangling' = IF DeviceDefined(metadata, reference)
                       THEN dangling
                       ELSE dangling \cup {reference}
    /\ rowsDone' = rowsDone + 1
    /\ UNCHANGED <<metadata, regionsDone>>
    /\ UNCHANGED alignVars
    /\ UNCHANGED scriptVars
    /\ UNCHANGED dateVars

\* The next index of a table region is looked up in the rows of the table.
ResolveRegion ==
    /\ regionsDone < Len(RegionReferences(metadata))
    /\ LET index == RegionReferences(metadata)[regionsDone + 1]
       IN  dangling' = IF RowDefined(metadata, index)
                       THEN dangling
                       ELSE dangling \cup {[row |-> index, field |-> "fiber_photometry_table_region",
                                            name |-> ""]}
    /\ regionsDone' = regionsDone + 1
    /\ UNCHANGED <<metadata, rowsDone>>
    /\ UNCHANGED alignVars
    /\ UNCHANGED scriptVars
    /\ UNCHANGED dateVars

NextMeta == ReadMetadata \/ ResolveDevice \/ ResolveRegion

SpecMeta == Init /\ [][NextMeta]_vars

\* Stages in which the selected case has been applied.
Applied == pc \in {"applied", "written"}

TypeOK ==
    /\ pc \in {"idle", "parsed", "shifted", "applied", "written", "failed"}
    /\ branch \in 0 .. 3
    /\ error \in {"none", "IndexError"}
    /\ runs \in 0 .. MaxRuns
    /\ report = <<>> \/ DOMAIN report = {"time_shift"}
    /\ script \in {"idle", "running", "done", "error"}
    /\ k \in 1 .. MaxFiles + 1
    /\ pass \in 1 .. MaxPasses
    /\ dateScript \in {"idle", "running", "done", "error"}
    /\ dateIndex \in 1 .. MaxDateFiles + 1
    /\ datePass \in 1 .. MaxPasses
    /\ dateMatFiles \in {"listing"} \cup Listings
    /\ \A file \in dateElsewhere : file.date.type = "char"
    /\ saved \subseteq loaded
    /\ loaded \subseteq DOMAIN disk

(***************************************************************************)
(* The claims.                                                             *)
(***************************************************************************)

\* Stages in which time_shift and the case have been derived.
Derived == pc \in {"shifted", "applied", "written"}

\* The primary tables of the session before any shift.
UnshiftedStates == AbsoluteStates(bpod_trial_start_times, raw_events)

UnshiftedEvents == AbsoluteEvents(bpod_trial_start_times, raw_events)

UnshiftedActions == AbsoluteActions(bpod_trial_start_times, raw_events)

\* C1: in every aligned session the first primary marker equals the first
\* secondary marker, whichever of the three cases was selected.
C1_FirstMarkersCoincide ==
    Applied =>
        aligned.bpod_trial_start_times[1] = aligned.center_port_onset_times[1]

\* C2: no timestamp of a secondary series (raw samples, secondary markers) of
\* an aligned session is negative, in the session in hand and in the sink.
C2_NoNegativeSecondary ==
    /\ Applied =>
         /\ \A i \in DOMAIN aligned.timestamps : aligned.timestamps[i] >= 0
         /\ \A i \in DOMAIN aligned.center_port_onset_times :
                aligned.center_port_onset_times[i] >= 0
    /\ \A n \in DOMAIN sink :
         /\ \A i \in DOMAIN sink[n].timestamps : sink[n].timestamps[i] >= 0
         /\ \A i \in DOMAIN sink[n].center_port_onset_times :
                sink[n].center_port_onset_times[i] >= 0

\* C3: the time shift is the first primary marker minus the first secondary
\* marker; later markers do not enter it.
C3_ShiftFromFirstMarkers ==
    Derived => time_shift = bpod_trial_start_times[1] - center_port_onset_times[1]

\* A negative shift derived from timelines whose second markers differ by
\* another amount than the first ones.
C3_Witness ==
    /\ pc = "shifted"
    /\ Len(bpod_trial_start_times) = 2
    /\ Len(center_port_onset_times) = 2
    /\ bpod_trial_start_times[2] - center_port_onset_times[2] # time_shift
    /\ bpod_trial_start_times[2] - center_port_onset_times[2] > 0
    /\ time_shift < 0

\* C4: the selected case is a function of (shift, first sample) and is the one
\* case whose condition holds: 1 for shift < 0 and first + shift < 0, 2 for
\* shift < 0 and first + shift >= 0, 3 for shift >= 0.
C4_BranchSelection ==
    Derived =>
        LET d == time_shift
            c == unaligned_timestamps[1] + time_shift
        IN  /\ branch \in {1, 2, 3}
            /\ (branch = 1) <=> (d < 0 /\ c < 0)
            /\ (branch = 2) <=> (d < 0 /\ c >= 0)
            /\ (branch = 3) <=> (d >= 0)

\* The boundary of cases 1 and 2: the first aligned timestamp is exactly zero.
C4_Witness ==
    /\ pc = "shifted"
    /\ time_shift < 0
    /\ unaligned_timestamps[1] + time_shift = 0
    /\ branch = 2

\* C5: in case 1 the recording and the secondary markers are not moved.
C5_Case1SecondaryUntouched ==
    (Applied /\ branch = 1) =>
        /\ aligned.timestamps = unaligned_timestamps
        /\ aligned.center_port_onset_times = center_port_onset_times

\* A session aligned by case 1.
C5_Witness ==
    /\ Applied
    /\ branch = 1
    /\ runs = 0

\* C6: in case 1 the Bpod trial starts, every Bpod column with a timestamp and
\* the session start time are moved back: each is earlier than it was.
C6_Case1PrimaryBackward ==
    (Applied /\ branch = 1) =>
        /\ aligned.session_start_time < session_start_time
        /\ \A i \in DOMAIN bpod_trial_start_times :
             /\ aligned.bpod_trial_start_times[i] < bpod_trial_start_times[i]
             /\ aligned.states[i][1] < UnshiftedStates[i][1]
             /\ aligned.states[i][2] < UnshiftedStates[i][2]
             /\ aligned.events[i] < UnshiftedEvents[i]
             /\ \A j \in DOMAIN UnshiftedActions[i] :
                    aligned.actions[i][j] < UnshiftedActions[i][j]

\* Case 1 on a session of two trials, written.
C6_Witness ==
    /\ pc = "written"
    /\ branch = 1
    /\ Len(bpod_trial_start_times) = 2
    /\ bpod_trial_start_times[1] < bpod_trial_start_times[2]

\* C7: the session start time and every primary series (trial starts, state
\* intervals, events) are moved by one and the same amount.
C7_PrimaryShiftUniform ==
    Applied =>
        LET d == aligned.session_start_time - session_start_time
        IN  \A i \in DOMAIN bpod_trial_start_times :
              /\ aligned.bpod_trial_start_times[i] - bpod_trial_start_times[i] = d
              /\ aligned.states[i][1] - UnshiftedStates[i][1] = d
              /\ aligned.states[i][2] - UnshiftedStates[i][2] = d
              /\ aligned.events[i] - UnshiftedEvents[i] = d
              /\ \A j \in DOMAIN UnshiftedActions[i] :
                     aligned.actions[i][j] - UnshiftedActions[i][j] = d

\* The primary side was moved, in a session whose two trials differ in their
\* relative times.
C7_Witness ==
    /\ Applied
    /\ aligned.session_start_time # session_start_time
    /\ Len(bpod_trial_start_times) = 2
    /\ raw_events[1] # raw_events[2]

\* C8: in case 2 every secondary series has time_shift added to each timestamp
\* and the primary side (trial starts, tables, session start time) is kept.
C8_Case2SecondaryShifted ==
    (Applied /\ branch = 2) =>
        /\ \A i \in DOMAIN unaligned_timestamps :
               aligned.timestamps[i] = unaligned_timestamps[i] + time_shift
        /\ DOMAIN aligned.timestamps = DOMAIN unaligned_timestamps
        /\ \A i \in DOMAIN center_port_onset_times :
               aligned.center_port_onset_times[i] = center_port_onset_times[i] + time_shift
        /\ DOMAIN aligned.center_port_onset_times = DOMAIN center_port_onset_times
        /\ aligned.bpod_trial_start_times = bpod_trial_start_times
        /\ aligned.session_start_time = session_start_time
        /\ aligned.states = UnshiftedStates
        /\ aligned.events = UnshiftedEvents
        /\ aligned.actions = UnshiftedActions

\* Case 2 on a recording that starts before the first marker.
C8_Witness ==
    /\ Applied
    /\ branch = 2
    /\ unaligned_timestamps[1] < center_port_onset_times[1]
    /\ Len(center_port_onset_times) = 2

\* C9: in case 3 every secondary series has time_shift added to each timestamp
\* and the primary timeline is kept, also when the first raw sample is negative.
C9_Case3SecondaryShifted ==
    (Applied /\ branch = 3) =>
        /\ \A i \in DOMAIN unaligned_timestamps :
               aligned.timestamps[i] = unaligned_timestamps[i] + time_shift
        /\ DOMAIN aligned.timestamps = DOMAIN unaligned_timestamps
        /\ \A i \in DOMAIN center_port_onset_times :
               aligned.center_port_onset_times[i] = center_port_onset_times[i] + time_shift
        /\ DOMAIN aligned.center_port_onset_times = DOMAIN center_port_onset_times
        /\ aligned.bpod_trial_start_times = bpod_trial_start_times

\* Case 3 with a positive shift on a recording whose first sample is negative.
C9_Witness ==
    /\ Applied
    /\ branch = 3
    /\ time_shift > 0
    /\ unaligned_timestamps[1] < 0

\* C10: the engine run on an aligned session derives a shift of 0 and returns
\* every timeline, the tables and the session start time as they were.
C10_Idempotent ==
    (runs >= 1 /\ Derived) =>
        /\ time_shift = 0
        /\ Applied =>
             /\ aligned.bpod_trial_start_times = bpod_trial_start_times
             /\ aligned.session_start_time = session_start_time
             /\ aligned.states = UnshiftedStates
             /\ aligned.events = UnshiftedEvents
             /\ aligned.actions = UnshiftedActions
             /\ aligned.timestamps = unaligned_timestamps
             /\ aligned.center_port_onset_times = center_port_onset_times

\* C11: the absolute time of every state, event and action of a trial is the
\* aligned start time of that trial plus the relative time of the item; the
\* items of a trial keep the places the source gives them.
C11_TrialRelativeReconstruction ==
    Applied =>
        /\ DOMAIN aligned.states = DOMAIN raw_events
        /\ DOMAIN aligned.events = DOMAIN raw_events
        /\ DOMAIN aligned.actions = DOMAIN raw_events
        /\ \A i \in DOMAIN raw_events :
             LET start == aligned.bpod_trial_start_times[i]
             IN  /\ aligned.states[i][1] = start + raw_events[i].States[1]
                 /\ aligned.states[i][2] = start + raw_events[i].States[2]
                 /\ aligned.events[i] = start + raw_events[i].Events
                 /\ DOMAIN aligned.actions[i] = DOMAIN raw_events[i].Actions
                 /\ \A j \in DOMAIN raw_events[i].Actions :
                        aligned.actions[i][j] = start + raw_events[i].Actions[j]

\* Two trials with different starts, moved by case 1; the second trial lists a
\* later action before an earlier one.
C11_Witness ==
    /\ Applied
    /\ branch = 1
    /\ Len(bpod_trial_start_times) = 2
    /\ aligned.bpod_trial_start_times[1] < aligned.bpod_trial_start_times[2]
    /\ raw_events[2].Actions = <<1, 0>>
    /\ aligned.actions[2][1] > aligned.actions[2][2]

\* C12: when the two marker timelines differ in length, or one of them is
\* empty, the session ends at once in InputMismatchError: no shift is derived,
\* no case is selected and no aligned session is produced.
C12_InputMismatchFatal ==
    (/\ pc \notin {"idle", "parsed"}
     /\ \/ Len(bpod_trial_start_times) # Len(center_port_onset_times)
        \/ Len(bpod_trial_start_times) = 0
        \/ Len(center_port_onset_times) = 0)
    => /\ pc = "failed"
       /\ error = "InputMismatchError"
       /\ branch = 0
       /\ report = <<>>
       /\ aligned = NoSession
       /\ Len(sink) = runs

\* C13: when the selected case has been applied and a secondary timestamp is
\* negative, the session ends in NegativeTimestampError and is not handed on;
\* the secondary timestamps are exactly the shifted ones, none is set to zero.
C13_NegativeTimestampFatal ==
    (pc \in {"applied", "written", "failed"} /\ aligned # NoSession) =>
        LET d == IF branch = 1 THEN 0 ELSE time_shift
        IN  /\ \A i \in DOMAIN unaligned_timestamps :
                   aligned.timestamps[i] = unaligned_timestamps[i] + d
            /\ \A i \in DOMAIN center_port_onset_times :
                   aligned.center_port_onset_times[i] = center_port_onset_times[i] + d
            /\ (\/ \E i \in DOMAIN aligned.timestamps : aligned.timestamps[i] < 0
                \/ \E i \in DOMAIN aligned.center_port_onset_times :
                       aligned.center_port_onset_times[i] < 0)
               => /\ pc = "failed"
                  /\ error = "NegativeTimestampError"
                  /\ Len(sink) = runs

\* C14: when case 1 would move a trial start of the primary clock below zero,
\* the session ends in AlignmentImpossibleError, no aligned session is
\* produced and the session is not written.
C14_AlignmentImpossible ==
    (/\ pc \notin {"idle", "parsed", "shifted"}
     /\ branch = 1
     /\ \E i \in DOMAIN bpod_trial_start_times :
            bpod_trial_start_times[i] + (unaligned_timestamps[1] + time_shift) < 0)
    => /\ pc = "failed"
       /\ error = "AlignmentImpossibleError"
       /\ aligned = NoSession
       /\ Len(sink) = runs

\* C16: every session that has ended, written or failed, has reported its
\* time shift and the case selected, one of 1, 2 and 3.
C16_AlwaysReported ==
    pc \in {"written", "failed"} =>
        /\ report # <<>>
        /\ DOMAIN report = {"time_shift", "branch"}
        /\ report.branch \in 1 .. 3

\* C19: for session A the shift is -28.582 s and the first sample lands on
\* 1.158 s, for session B the shift is -5.690 s and the first sample lands on
\* 11.426 s; either session is aligned by case 2, without error, and its
\* first secondary marker then equals its first primary marker.
C19_DocumentedSessions ==
    /\ (/\ pc \notin {"idle", "parsed"}
        /\ bpod_trial_start_times = <<19988, 39715>>
        /\ center_port_onset_times = <<48570, 68298>>
        /\ unaligned_timestamps[1] = 29740)
       => /\ time_shift = 0 - 28582
          /\ unaligned_timestamps[1] + time_shift = 1158
          /\ branch = 2
          /\ pc # "failed"
          /\ Applied => /\ aligned.center_port_onset_times[1] = 19988
                         /\ aligned.bpod_trial_start_times[1] = 19988
                         /\ aligned.timestamps[1] = 1158
    /\ (/\ pc \notin {"idle", "parsed"}
        /\ bpod_trial_start_times = <<11426, 104528>>
        /\ center_port_onset_times = <<17116, 110217>>
        /\ unaligned_timestamps[1] = 17116)
       => /\ time_shift = 0 - 5690
          /\ unaligned_timestamps[1] + time_shift = 11426
          /\ branch = 2
          /\ pc # "failed"
          /\ Applied => /\ aligned.center_port_onset_times[1] = 11426
                         /\ aligned.bpod_trial_start_times[1] = 11426
                         /\ aligned.timestamps[1] = 11426

C19_Witness ==
    /\ pc = "written"
    /\ bpod_trial_start_times = <<11426, 104528>>
    /\ branch = 2
    /\ time_shift = 0 - 5690
    /\ aligned.center_port_onset_times[1] = 11426
    /\ Len(sink) = 1
    /\ sink[1] = aligned

\* C15: nothing of a session that meets the condition of a core error is
\* handed to the sink: not of one whose marker timelines differ in length or
\* are empty, not of one with a negative secondary timestamp after its case,
\* and not of one whose case 1 moves a trial start below zero.
C15_FailureContained ==
    (/\ pc \notin {"idle", "parsed", "shifted"}
     /\ \/ Len(bpod_trial_start_times) # Len(center_port_onset_times)
        \/ Len(bpod_trial_start_times) = 0
        \/ Len(center_port_onset_times) = 0
        \/ \E i \in DOMAIN aligned.timestamps : aligned.timestamps[i] < 0
        \/ \E i \in DOMAIN aligned.center_port_onset_times :
               aligned.center_port_onset_times[i] < 0
        \/ /\ branch = 1
           /\ \E i \in DOMAIN aligned.bpod_trial_start_times :
                  aligned.bpod_trial_start_times[i] < 0)
    => Len(sink) = runs

\* C20: a .mat file that has no SU variable is on disk what it was when the
\* script began; once the loop is past it, it has been loaded, and it is never
\* saved.
C20_NoSUUntouched ==
    \A i \in DOMAIN original :
        (original[i].ok /\ ~original[i].hasSU) =>
            /\ disk[i] = original[i]
            /\ i \notin saved
            /\ i < k => i \in loaded

C20_Witness ==
    /\ script = "done"
    /\ Len(disk) = 2
    /\ original[1].ok /\ ~original[1].hasSU /\ original[1].hasS /\ original[1].others
    /\ disk[1] = original[1]
    /\ 1 \in loaded
    /\ saved = {2}
    /\ disk[2] # original[2]

\* C21: in every file the script has saved, the location of every unit that
\* has one is a character array.
C21_LocationsAreChar ==
    \A i \in saved :
        \A u \in DOMAIN disk[i].SU :
            disk[i].SU[u].hasLocation => disk[i].SU[u].location.type = "char"

\* C22 as stated: a file the script has saved holds the S it held when it
\* was loaded, and differs from the loaded file in location fields of SU only.
C22_OnlyLocationsDiffer ==
    \A i \in saved :
        /\ disk[i].hasS
        /\ disk[i].S = original[i].S
        /\ disk[i].others = original[i].others
        /\ disk[i].hasSU
        /\ DOMAIN disk[i].SU = DOMAIN original[i].SU
        /\ \A u \in DOMAIN original[i].SU :
               /\ disk[i].SU[u].hasLocation = original[i].SU[u].hasLocation
               /\ ~original[i].SU[u].hasLocation => disk[i].SU[u] = original[i].SU[u]

\* C22, amended: a file the script has saved holds the S it held when it was
\* loaded; its SU has the units it had, every unit has a location if and only
\* if it had one, and a unit without a location is as it was; and the file
\* holds no other variable, whatever it held when it was loaded.
C22_SPreserved ==
    \A i \in saved :
        /\ disk[i].hasS
        /\ original[i].hasS
        /\ disk[i].S = original[i].S
        /\ disk[i].hasSU
        /\ DOMAIN disk[i].SU = DOMAIN original[i].SU
        /\ \A u \in DOMAIN original[i].SU :
               /\ disk[i].SU[u].hasLocation = original[i].SU[u].hasLocation
               /\ ~original[i].SU[u].hasLocation => disk[i].SU[u] = original[i].SU[u]
        /\ ~disk[i].others

C22_Witness ==
    /\ script = "done"
    /\ saved = {1, 2}
    /\ original[1].S = 7 /\ disk[1].S = 7
    /\ original[2].S = 8 /\ disk[2].S = 8
    /\ original[1].others /\ ~disk[1].others
    /\ Len(original[2].SU) = 2
    /\ ~original[2].SU[2].hasLocation
    /\ disk[2].SU[1] # original[2].SU[1]

\* What the body of the loop makes of one file, whatever the other files are.
ProcessedFile(file) ==
    IF file.ok /\ file.hasSU /\ file.hasS
    THEN SavedFile(file.S, ConvertSU(file.SU))
    ELSE file

\* C23: the script stops early only at a file that has SU and no S, never at
\* a file that cannot be loaded; such a file, once the loop is past it, is as
\* it was, was neither loaded nor saved, and its error was displayed; and
\* every file between it and the place of the loop is what the loop body
\* makes of that file alone.
C23_LoadFailureSkipped ==
    /\ script = "error" => (disk[k].ok /\ disk[k].hasSU /\ ~disk[k].hasS)
    /\ script = "done" => k = Len(disk) + 1
    /\ \A i \in DOMAIN original :
          (~original[i].ok /\ i < k) =>
              /\ disk[i] = original[i]
              /\ i \notin saved
              /\ i \notin loaded
              /\ \E m \in DOMAIN console :
                     console[m] = [text |-> "An error occurred", file |-> i]
              /\ \A j \in (i + 1) .. (k - 1) : disk[j] = ProcessedFile(original[j])

C23_Witness ==
    /\ script = "done"
    /\ Len(disk) = 2
    /\ ~original[1].ok
    /\ saved = {2}
    /\ disk[2] # original[2]
    /\ console = <<[text |-> "An error occurred", file |-> 1],
                   [text |-> "Processed and saved", file |-> 2]>>

\* C24: in a run of the script after the first, every file is left with the
\* SU and the S it had when that run began.
C24_SecondRunNoChange ==
    pass > 1 =>
        \A i \in DOMAIN disk :
            /\ disk[i].SU = original[i].SU
            /\ disk[i].S = original[i].S

\* C25: the loop of the date script has made the date of every file before
\* its place a 'dd-mmm-yyyy' string, of the day, month and year the datetime
\* had, and has left the file at its place and every later file as it was;
\* it ends with an error at a file that has no datetime date, and only there;
\* and a run after the first is at its first file, with an error once it has
\* taken a step, and has changed nothing.
C25_StopsAtFirstBadDate ==
    /\ \A j \in DOMAIN dateDisk :
          IF j < dateIndex
          THEN /\ dateListed[j].ok /\ dateListed[j].hasA /\ dateListed[j].hasDate
               /\ dateListed[j].date.type = "datetime"
               /\ dateDisk[j].hasA /\ dateDisk[j].hasDate
               /\ dateDisk[j].date.type = "char"
               /\ dateDisk[j].date.day = dateListed[j].date.day
               /\ dateDisk[j].date.mmm = MonthNames[dateListed[j].date.month]
               /\ dateDisk[j].date.year = dateListed[j].date.year
          ELSE dateDisk[j] = dateListed[j]
    /\ dateScript = "error" =>
          ~(/\ dateDisk[dateIndex].ok /\ dateDisk[dateIndex].hasA
            /\ dateDisk[dateIndex].hasDate
            /\ dateDisk[dateIndex].date.type = "datetime")
    /\ dateScript = "done" => dateIndex = Len(dateDisk) + 1
    /\ (datePass > 1 /\ Len(dateDisk) > 0) =>
          /\ dateIndex = 1
          /\ dateScript \in {"running", "error"}
          /\ dateDisk = dateListed

\* C26: alignment moves all times of one clock by one amount.  Every time of
\* the secondary clock (recording timestamps, center port onsets) is as far
\* from the first recording timestamp after alignment as before, and every
\* time of the primary clock (trial starts, states, events, actions) as far
\* from the first trial start; so the difference of any two times of a clock
\* is kept, and the timelines are in the order they were in.
C26_DifferencesPreserved ==
    Applied =>
        LET s0 == unaligned_timestamps[1]
            s1 == aligned.timestamps[1]
            p0 == bpod_trial_start_times[1]
            p1 == aligned.bpod_trial_start_times[1]
        IN  /\ \A i \in DOMAIN unaligned_timestamps :
                   aligned.timestamps[i] - s1 = unaligned_timestamps[i] - s0
            /\ \A i \in DOMAIN center_port_onset_times :
                   aligned.center_port_onset_times[i] - s1 = center_port_onset_times[i] - s0
            /\ \A i \in DOMAIN bpod_trial_start_times :
                   /\ aligned.bpod_trial_start_times[i] - p1 = bpod_trial_start_times[i] - p0
                   /\ aligned.states[i][1] - p1 = UnshiftedStates[i][1] - p0
                   /\ aligned.states[i][2] - p1 = UnshiftedStates[i][2] - p0
                   /\ aligned.states[i][2] - aligned.states[i][1]
                          = raw_events[i].States[2] - raw_events[i].States[1]
                   /\ aligned.events[i] - p1 = UnshiftedEvents[i] - p0
                   /\ \A j \in DOMAIN raw_events[i].Actions :
                          aligned.actions[i][j] - p1 = UnshiftedActions[i][j] - p0
            /\ \A i \in DOMAIN unaligned_timestamps : \A j \in DOMAIN unaligned_timestamps :
                   i < j => aligned.timestamps[i] <= aligned.timestamps[j]
            /\ \A i \in DOMAIN center_port_onset_times : \A j \in DOMAIN center_port_onset_times :
                   i < j => aligned.center_port_onset_times[i] <= aligned.center_port_onset_times[j]
            /\ \A i \in DOMAIN bpod_trial_start_times : \A j \in DOMAIN bpod_trial_start_times :
                   i < j => aligned.bpod_trial_start_times[i] <= aligned.bpod_trial_start_times[j]

C26_Witness ==
    /\ Applied
    /\ branch = 2
    /\ time_shift < 0
    /\ Len(center_port_onset_times) = 2
    /\ center_port_onset_times[1] < center_port_onset_times[2]
    /\ aligned.center_port_onset_times[2] - aligned.center_port_onset_times[1]
          = center_port_onset_times[2] - center_port_onset_times[1]
    /\ aligned.timestamps[1] # unaligned_timestamps[1]

\* C27: in case 1 the session start time plus the time of a primary event is
\* after alignment what it was before, for every trial start, state and event.
C27_WallClockKept ==
    (Applied /\ branch = 1) =>
        \A i \in DOMAIN bpod_trial_start_times :
            /\ aligned.session_start_time + aligned.bpod_trial_start_times[i]
                  = session_start_time + bpod_trial_start_times[i]
            /\ aligned.session_start_time + aligned.states[i][1]
                  = session_start_time + UnshiftedStates[i][1]
            /\ aligned.session_start_time + aligned.events[i]
                  = session_start_time + UnshiftedEvents[i]

\* C28: the tables built from the shifted trial starts are the tables built
\* from the unshifted trial starts with the shift of the primary clock added
\* to every time; the aligned session holds these tables.
C28_ReconstructionCommutes ==
    Applied =>
        LET a == aligned.bpod_trial_start_times[1] - bpod_trial_start_times[1]
            states == AbsoluteStates(aligned.bpod_trial_start_times, raw_events)
            events == AbsoluteEvents(aligned.bpod_trial_start_times, raw_events)
            actions == AbsoluteActions(aligned.bpod_trial_start_times, raw_events)
        IN  /\ states = [i \in DOMAIN raw_events |->
                            <<UnshiftedStates[i][1] + a, UnshiftedStates[i][2] + a>>]
            /\ events = [i \in DOMAIN raw_events |-> UnshiftedEvents[i] + a]
            /\ actions = [i \in DOMAIN raw_events |->
                             [j \in DOMAIN raw_events[i].Actions |->
                                 UnshiftedActions[i][j] + a]]
            /\ aligned.states = states
            /\ aligned.events = events
            /\ aligned.actions = actions

C28_Witness ==
    /\ Applied
    /\ branch = 1
    /\ Len(bpod_trial_start_times) = 2
    /\ aligned.bpod_trial_start_times[2] = bpod_trial_start_times[2] - 1
    /\ raw_events[2].Events = 2
    /\ aligned.events[2] = UnshiftedEvents[2] - 1
    /\ aligned.actions[2] # UnshiftedActions[2]

\* C29: every device a row of the FiberPhotometryTable names is an entry of
\* the list of devices of that kind in the same file, and every index of a
\* table region is the name of a row: no reference that was looked up names
\* nothing.
C29_ReferencesDefined == dangling = {}
====
